---- MODULE Spec2Model ----
(***************************************************************************)
(* The user-delete detector of src/server/userDeleteDetectorHelper.ts: the *)
(* registration API (zAdd / zRem on the sorted set 'usr:del-det') and the  *)
(* scheduler endpoint /internal/scheduler/check-deleted-users.  Every      *)
(* await of the handler is one step of the model; the clock, the upstream  *)
(* accounts and the outcome of each awaited call (value or throw) are the  *)
(* environment.                                                            *)
(***************************************************************************)
EXTENDS Integers, Sequences, FiniteSets, TLC

\* ------------------------------------------------------------ constants
\* userDeleteDetectorHelper.ts:190  const oneDayMs = 86400000
oneDayMs == 86400000
\* userDeleteDetectorHelper.ts:233  (Date.now() - startTime) > 15000
budgetMs == 15000

\* ------------------------------------------------------------ bounds
\* The clock takes the instants d*oneDayMs + e with d <= MaxDays and e one of 0,
\* budgetMs (the longest run that is not cut short) and budgetMs + 1.
MaxDays == 2

\* Members are strings, modelled as sequences of characters.
UserA == <<"t", "2", "_", "a">>
UserB == <<"b", "o", "b">>
Keys == {UserA, UserB}

\* Handler invocations.  Spec runs them one at a time.
Runs == {1}

Offsets == {0, budgetMs, budgetMs + 1}
Instants == {d * oneDayMs + e : d \in 0..MaxDays, e \in Offsets}

VARIABLES
  now,          \* Date.now()
  store,        \* the sorted set: member -> score, on the members present
  deleted,      \* accounts that no longer exist upstream
  pc,           \* per invocation: the await the handler is at
  startTime,    \* per invocation: const startTime
  usersToCheck, \* per invocation: const usersToCheck (sequence of {member, score})
  idx,          \* per invocation: position of `user` in usersToCheck
  response,     \* per invocation: HTTP status sent (0: none yet)
  outcome,      \* history, per invocation and member: what the run did with it
  pre,          \* history, per invocation: the store when the batch was fetched
  truncated,    \* history, per invocation: the loop ended at the break
  abortedBy,    \* history, per invocation: the call whose throw reached the outer catch
  isUserId,     \* per invocation: const isUserId of the present loop body
  called,       \* history, per invocation: the latest call to reddit or to onUserDeleted
  delivery,     \* history, per member: successful onUserDeleted since registration
  failedBefore, \* history: registered members whose onUserDeleted has thrown
  lastTouch,    \* history, per member: when a run wrote its present score (-1: none did)
  regAt,        \* history, per member: Date.now() of the register call that wrote its
                \* present entry (-1: no entry, or a run has re-stamped it since)
  lastCall,     \* history: the call of the registration API that was just made (kept
                \* until the clock moves or a request arrives)
  state,        \* the client game: the GameState of App (useState)
  lastClick     \* history, client game: the box of the latest click and the GameState
                \* it found

vars == <<now, store, deleted, pc, startTime, usersToCheck, idx, response,
          outcome, pre, truncated, abortedBy, delivery, failedBefore, lastTouch,
          regAt, lastCall, isUserId, called, state, lastClick>>

gameVars == <<state, lastClick>>

runVars == <<pc, startTime, usersToCheck, idx, response, outcome, pre, truncated, abortedBy,
             isUserId, called>>

\* ------------------------------------------------------------ strings
\* ASCII order of the characters used in Keys.
CharCode(c) ==
  CASE c = "2" -> 50
    [] c = "_" -> 95
    [] c = "a" -> 97
    [] c = "b" -> 98
    [] c = "o" -> 111
    [] c = "t" -> 116

Min2(a, b) == IF a <= b THEN a ELSE b

\* Byte-wise comparison of two strings (Redis orders equal scores this way).
LexLess(s, t) ==
  \E i \in 1..(Min2(Len(s), Len(t)) + 1) :
     /\ \A j \in 1..(i - 1) : s[j] = t[j]
     /\ \/ i = Len(s) + 1 /\ i <= Len(t)
        \/ i <= Len(s) /\ i <= Len(t) /\ CharCode(s[i]) < CharCode(t[i])

\* String.prototype.indexOf(needle) === 0
StartsWith(s, needle) ==
  /\ Len(needle) <= Len(s)
  /\ \A j \in 1..Len(needle) : s[j] = needle[j]

\* String.prototype.indexOf(needle): the first position (from 0) at which needle
\* occurs in s, -1 when it does not occur.
IndexOf(s, needle) ==
  LET at == {i \in 0..(Len(s) - Len(needle)) :
               \A j \in 1..Len(needle) : s[i + j] = needle[j]}
  IN IF at = {} THEN -1 ELSE CHOOSE i \in at : \A j \in at : i <= j

\* Faulty variant of IsUserId: the prefix is looked for one character too far.
IsUserIdOffByOne(member) == IndexOf(member, <<"t", "2", "_">>) = 1

\* userDeleteDetectorHelper.ts:203  user.member.indexOf('t2_') === 0
IsUserId(member) == IndexOf(member, <<"t", "2", "_">>) = 0

\* ------------------------------------------------------------ redis
\* Faulty variant of ZAdd: a member already present keeps its score (ZADD NX).
ZAddKeepsOld(s, member, score) ==
  [m \in DOMAIN s \cup {member} |-> IF m \in DOMAIN s THEN s[m] ELSE score]

\* redis.zAdd(key, {member, score}): insert or replace the score.
ZAdd(s, member, score) ==
  [m \in DOMAIN s \cup {member} |-> IF m = member THEN score ELSE s[m]]

\* Faulty variant of ZRem: the whole sorted set is deleted (redis.del of the key).
ZRemDropsSet(s, member) == [m \in {} |-> 0]

\* Faulty variant of ZRem: the member stays.
ZRemKeep(s, member) == s

\* redis.zRem(key, [member])
ZRem(s, member) == [m \in DOMAIN s \ {member} |-> s[m]]

\* Faulty variant of Before: newest first.
BeforeDescending(s, a, b) == s[a] > s[b] \/ (s[a] = s[b] /\ LexLess(a, b))

\* Order of a sorted set: by score, then by member.
Before(s, a, b) == s[a] < s[b] \/ (s[a] = s[b] /\ LexLess(a, b))

RECURSIVE Ascending(_, _)
Ascending(s, ms) ==
  IF ms = {} THEN <<>>
  ELSE LET first == CHOOSE a \in ms : \A b \in ms \ {a} : Before(s, a, b)
       IN <<[member |-> first, score |-> s[first]]>> \o Ascending(s, ms \ {first})

\* redis.zRange(key, min, max, {by: 'score'}): both ends inclusive.
ZRangeByScore(s, min, max) ==
  Ascending(s, {m \in DOMAIN s : min <= s[m] /\ s[m] <= max})

Members(batch) == {batch[j].member : j \in 1..Len(batch)}

\* ------------------------------------------------------------ initial state
NoOutcome == [k \in Keys |-> "unseen"]
EmptyStore == [m \in {} |-> 0]
NoTouch == -1
NoCall == [op |-> "none", member |-> <<>>, present |-> FALSE]
NothingCalled == [api |-> "none", args |-> <<>>]

\* ------------------------------------------------------------ client game: data
\* part_000:126-128: the 5 x 5 grid, boxes 0 .. 24
Boxes == 0 .. 24

\* The boxes one game selects, at most.
MaxAttempts == 3

\* Strings are sequences of characters, as the members of the store are.
Str1 == <<"3">>
Str2 == <<"0", ",", "2", "4">>
Str3 == <<"7", ",", "8", ",", "9">>
Str4 == <<"3", ",", "3">>
Str5 == <<"2", "5">>
Str6 == <<"1", ",", " ", "2">>
Str7 == <<"5", ",">>

\* data.levelData of /api/init: what the moderator typed into the form
\* (2_formAction.ts:24-27 stores gameData as it is), never the empty string
\* (4_initGameAction.ts:41-48).
Levels == {Str1, Str2, Str3, Str4, Str5, Str6, Str7}

\* null; at part_000:81 it is told from a string only by being falsy.
Null == <<>>

\* part_000:25-34
InitialState ==
  [levelName |-> Null, levelData |-> Null, username |-> Null,
   loading |-> TRUE, error |-> FALSE,
   selectedItems |-> [b \in Boxes |-> FALSE],
   attempts |-> 0, foundTreasure |-> 0]

NoClick == [boxNo |-> -1, prev |-> InitialState]

Digit(d) == <<"0", "1", "2", "3", "4", "5", "6", "7", "8", "9">>[d + 1]

\* Number.prototype.toString() of a box number: decimal, no leading zero
RECURSIVE toString(_)
toString(n) == IF n < 10 THEN <<Digit(n)>> ELSE toString(n \div 10) \o <<Digit(n % 10)>>

\* String.prototype.split(sep), sep one character
RECURSIVE Split(_, _)
Split(str, sep) ==
  IF \E i \in 1 .. Len(str) : str[i] = sep
  THEN LET i == CHOOSE i \in 1 .. Len(str) :
                   str[i] = sep /\ \A j \in 1 .. (i - 1) : str[j] # sep
       IN  <<SubSeq(str, 1, i - 1)>> \o Split(SubSeq(str, i + 1, Len(str)), sep)
  ELSE <<str>>

\* Array.prototype.indexOf(item): the first position (from 0) of item, or -1
ArrayIndexOf(arr, item) ==
  IF \E i \in 1 .. Len(arr) : arr[i] = item
  THEN (CHOOSE i \in 1 .. Len(arr) :
           arr[i] = item /\ \A j \in 1 .. (i - 1) : arr[j] # item) - 1
  ELSE -1

\* part_000:94
treasureLocations(levelData) == Split(levelData, ",")

\* part_000:95
didWin(s) == Len(treasureLocations(s.levelData)) = s.foundTreasure

\* part_000:81: the grid is rendered
Rendered(s) == ~(s.loading \/ s.error \/ s.levelData = Null)

\* Faulty variant of AlreadySelected: a selected box is taken for a fresh one.
AlreadySelectedNever(s, boxNo) == FALSE

\* part_000:102
AlreadySelected(s, boxNo) == s.selectedItems[boxNo]

\* part_000:109
isTreasure(levelData, boxNo) ==
  ArrayIndexOf(treasureLocations(levelData), toString(boxNo)) > -1

\* part_000:99-119: the state the updater returns
onBoxSelect(s, boxNo) ==
  IF AlreadySelected(s, boxNo)
  THEN s
  ELSE [s EXCEPT !.attempts = @ + 1,
                 !.selectedItems[boxNo] = TRUE,
                 !.foundTreasure = IF isTreasure(s.levelData, boxNo) THEN @ + 1 ELSE @]

Init ==
  /\ now = 0
  /\ store = EmptyStore
  /\ deleted = {}
  /\ pc = [r \in Runs |-> "idle"]
  /\ startTime = [r \in Runs |-> 0]
  /\ usersToCheck = [r \in Runs |-> <<>>]
  /\ idx = [r \in Runs |-> 0]
  /\ response = [r \in Runs |-> 0]
  /\ outcome = [r \in Runs |-> NoOutcome]
  /\ pre = [r \in Runs |-> EmptyStore]
  /\ truncated = [r \in Runs |-> FALSE]
  /\ abortedBy = [r \in Runs |-> "none"]
  /\ isUserId = [r \in Runs |-> FALSE]
  /\ called = [r \in Runs |-> NothingCalled]
  /\ delivery = [k \in Keys |-> "none"]
  /\ failedBefore = {}
  /\ lastTouch = [k \in Keys |-> NoTouch]
  /\ regAt = [k \in Keys |-> NoTouch]
  /\ lastCall = NoCall
  /\ state = InitialState
  /\ lastClick = NoClick

\* ------------------------------------------------------------ environment
\* The clock moves forward.
Tick ==
  /\ \E t \in Instants : t > now /\ now' = t
  /\ lastCall' = NoCall
  /\ UNCHANGED gameVars
  /\ UNCHANGED <<store, deleted, runVars, delivery, failedBefore, lastTouch, regAt>>

\* A Reddit account is deleted upstream.
DeleteAccount(k) ==
  /\ k \notin deleted
  /\ deleted' = deleted \cup {k}
  /\ UNCHANGED gameVars
  /\ UNCHANGED <<now, store, runVars, delivery, failedBefore, lastTouch, regAt, lastCall>>

\* ------------------------------------------------------------ registration API
\* Faulty variant of RegisterScore: the entry is written with score 0.
RegisterScoreZero(t) == 0

\* userDeleteDetectorHelper.ts:145: score: Date.now()
RegisterScore(t) == t

\* userDeleteDetectorHelper.ts:144-146
registerUserForDeleteCheck(k) ==
  /\ store' = ZAdd(store, k, RegisterScore(now))
  /\ delivery' = [delivery EXCEPT ![k] = "none"]
  /\ failedBefore' = failedBefore \ {k}
  /\ lastTouch' = [lastTouch EXCEPT ![k] = NoTouch]
  /\ regAt' = [regAt EXCEPT ![k] = now]
  /\ lastCall' = [op |-> "register", member |-> k, present |-> k \in DOMAIN store]
  /\ UNCHANGED gameVars
  /\ UNCHANGED <<now, deleted, runVars>>

\* userDeleteDetectorHelper.ts:153-155
unregisterUserForDeleteCheck(k) ==
  /\ store' = ZRem(store, k)
  /\ failedBefore' = failedBefore \ {k}
  /\ lastTouch' = [lastTouch EXCEPT ![k] = NoTouch]
  /\ regAt' = [regAt EXCEPT ![k] = NoTouch]
  /\ lastCall' = [op |-> "unregister", member |-> k, present |-> k \in DOMAIN store]
  /\ UNCHANGED gameVars
  /\ UNCHANGED <<now, deleted, runVars, delivery>>

\* ------------------------------------------------------------ scheduler endpoint
User(r) == usersToCheck[r][idx[r]]

\* Faulty variant of Respond: the handler ends without sending a response.
RespondNothing(r, code) ==
  /\ response' = response
  /\ pc' = [pc EXCEPT ![r] = "done"]

\* res.status(code).json(...): the response is sent.
Respond(r, code) ==
  /\ response' = [response EXCEPT ![r] = code]
  /\ pc' = [pc EXCEPT ![r] = "done"]

\* Faulty variant of OuterCatch: the error is logged and the loop goes on.
OuterCatchContinue(r, call) ==
  /\ abortedBy' = [abortedBy EXCEPT ![r] = call]
  /\ pc' = [pc EXCEPT ![r] = "budget"]
  /\ UNCHANGED response

\* userDeleteDetectorHelper.ts:247 and 251-254: the JSON body sent with the status.
ResponseBody(code) ==
  IF code = 200 THEN [status |-> "complete"]
  ELSE [status |-> "error", message |-> "Error in delete-user detector scheduler"]

\* userDeleteDetectorHelper.ts:249-255: the outer catch.
OuterCatch(r, call) ==
  /\ abortedBy' = [abortedBy EXCEPT ![r] = call]
  /\ Respond(r, 500)

\* Faulty variant of InnerCatch: the error ends the handler.
InnerCatchEnds == "done"

\* userDeleteDetectorHelper.ts:222-224: the inner catch logs, the loop body goes on
\* to the elapsed-time check.
InnerCatch == "budget"

\* Faulty variant of InnerCatchStore: the member is removed although the callback threw.
InnerCatchRemoves(s, member) == ZRem(s, member)

\* userDeleteDetectorHelper.ts:222-224: the inner catch writes nothing to the store.
InnerCatchStore(s, member) == s

\* Faulty variant of TouchScore: the run's start time is written.
TouchAtStart(start, t) == start

\* userDeleteDetectorHelper.ts:228: the score written for a user that still exists.
TouchScore(start, t) == t

\* Faulty variant of BudgetExceeded: the loop stops at 15000 ms already.
BudgetReached(start, t) == (t - start) >= budgetMs

\* userDeleteDetectorHelper.ts:233
BudgetExceeded(start, t) == (t - start) > budgetMs

\* Faulty variant of Cutoff: the 24 hours are not subtracted.
CutoffAtStart(start) == start

\* userDeleteDetectorHelper.ts:191: the upper end of the score range.
Cutoff(start) == start - oneDayMs

\* userDeleteDetectorHelper.ts:165,187: the request arrives; startTime is taken.
Invoke(r) ==
  /\ pc[r] = "idle"
  /\ startTime' = [startTime EXCEPT ![r] = now]
  /\ pc' = [pc EXCEPT ![r] = "zRange"]
  /\ UNCHANGED gameVars
  /\ UNCHANGED <<now, store, deleted, usersToCheck, idx, response, outcome, pre,
                 truncated, abortedBy, delivery, failedBefore, lastTouch, regAt, isUserId, called>>
  /\ lastCall' = NoCall

\* userDeleteDetectorHelper.ts:191-200 and 239-247: await redis.zRange(...)
Fetch(r) ==
  /\ pc[r] = "zRange"
  /\ \/ /\ OuterCatch(r, "zRange")
        /\ UNCHANGED <<usersToCheck, idx, pre>>
     \/ LET batch == ZRangeByScore(store, 0, Cutoff(startTime[r])) IN
        /\ usersToCheck' = [usersToCheck EXCEPT ![r] = batch]
        /\ pre' = [pre EXCEPT ![r] = store]
        /\ IF Len(batch) > 0
             THEN /\ idx' = [idx EXCEPT ![r] = 1]
                  /\ pc' = [pc EXCEPT ![r] = "getUser"]
                  /\ UNCHANGED response
             ELSE /\ Respond(r, 200)
                  /\ UNCHANGED idx
        /\ UNCHANGED abortedBy
  /\ UNCHANGED gameVars
  /\ UNCHANGED <<now, store, deleted, startTime, outcome, truncated, delivery, failedBefore, lastTouch, regAt, lastCall, isUserId, called>>

\* userDeleteDetectorHelper.ts:206-208: the lookup that isUserId selects.
LookupApi(flag) == IF flag THEN "getUserById" ELSE "getUserByUsername"

\* userDeleteDetectorHelper.ts:203-211: await reddit.getUserById / getUserByUsername
GetUser(r) ==
  /\ pc[r] = "getUser"
  /\ isUserId' = [isUserId EXCEPT ![r] = IsUserId(User(r).member)]
  /\ called' = [called EXCEPT ![r] =
                  [api |-> LookupApi(isUserId'[r]), args |-> <<User(r).member>>]]
  /\ LET member == User(r).member IN
     \/ /\ OuterCatch(r, "getUser")
        /\ outcome' = [outcome EXCEPT ![r][member] = "lookupError"]
     \/ LET userProfile == member \notin deleted IN
        /\ pc' = [pc EXCEPT ![r] = IF ~userProfile THEN "onUserDeleted" ELSE "zAdd"]
        /\ outcome' = [outcome EXCEPT ![r][member] = IF ~userProfile THEN "absent" ELSE "exists"]
        /\ UNCHANGED <<response, abortedBy>>
  /\ UNCHANGED gameVars
  /\ UNCHANGED <<now, store, deleted, startTime, usersToCheck, idx, pre, truncated,
                 delivery, failedBefore, lastTouch, regAt, lastCall>>

\* userDeleteDetectorHelper.ts:215-217: await onUserDeleted(user.member, isUserId)
CallOnUserDeleted(r) ==
  /\ pc[r] = "onUserDeleted"
  /\ called' = [called EXCEPT ![r] =
                  [api |-> "onUserDeleted", args |-> <<User(r).member, isUserId[r]>>]]
  /\ LET member == User(r).member IN
     \/ /\ pc' = [pc EXCEPT ![r] = "zRem"]
        /\ outcome' = [outcome EXCEPT ![r][member] = "cleaned"]
        /\ delivery' = [delivery EXCEPT ![member] = "done"]
        /\ UNCHANGED <<store, failedBefore>>
     \/ /\ pc' = [pc EXCEPT ![r] = InnerCatch]
        /\ store' = InnerCatchStore(store, member)
        /\ outcome' = [outcome EXCEPT ![r][member] = "callbackError"]
        /\ failedBefore' = failedBefore \cup {member}
        /\ UNCHANGED delivery
  /\ UNCHANGED gameVars
  /\ UNCHANGED <<now, deleted, startTime, usersToCheck, idx, response, pre,
                 truncated, abortedBy, lastTouch, regAt, lastCall, isUserId>>

\* userDeleteDetectorHelper.ts:220: await redis.zRem(UserCheckRedisKey, [user.member])
Remove(r) ==
  /\ pc[r] = "zRem"
  /\ LET member == User(r).member IN
     \/ /\ store' = ZRem(store, member)
        /\ pc' = [pc EXCEPT ![r] = "budget"]
        /\ outcome' = [outcome EXCEPT ![r][member] = "removed"]
        /\ delivery' = [delivery EXCEPT ![member] = "retired"]
        /\ lastTouch' = [lastTouch EXCEPT ![member] = NoTouch]
        /\ regAt' = [regAt EXCEPT ![member] = NoTouch]
     \/ /\ pc' = [pc EXCEPT ![r] = InnerCatch]
        /\ store' = InnerCatchStore(store, member)
        /\ outcome' = [outcome EXCEPT ![r][member] = "removeError"]
        /\ UNCHANGED <<delivery, lastTouch, regAt>>
  /\ UNCHANGED gameVars
  /\ UNCHANGED <<now, deleted, startTime, usersToCheck, idx, response, pre, truncated,
                 abortedBy, failedBefore, lastCall, isUserId, called>>

\* userDeleteDetectorHelper.ts:228: await redis.zAdd(..., {member, score: Date.now()})
Touch(r) ==
  /\ pc[r] = "zAdd"
  /\ LET member == User(r).member IN
     \/ /\ store' = ZAdd(store, member, TouchScore(startTime[r], now))
        /\ pc' = [pc EXCEPT ![r] = "budget"]
        /\ outcome' = [outcome EXCEPT ![r][member] = "touched"]
        /\ lastTouch' = [lastTouch EXCEPT ![member] = now]
        /\ regAt' = [regAt EXCEPT ![member] = NoTouch]
        /\ UNCHANGED <<response, abortedBy>>
     \/ /\ OuterCatch(r, "zAdd")
        /\ outcome' = [outcome EXCEPT ![r][member] = "touchError"]
        /\ UNCHANGED <<store, lastTouch, regAt>>
  /\ UNCHANGED gameVars
  /\ UNCHANGED <<now, deleted, startTime, usersToCheck, idx, pre, truncated,
                 delivery, failedBefore, lastCall, isUserId, called>>

\* userDeleteDetectorHelper.ts:233-237 and 246-247: the elapsed-time check, then the
\* next user of the for loop or the success response.
CheckBudget(r) ==
  /\ pc[r] = "budget"
  /\ IF BudgetExceeded(startTime[r], now)
       THEN /\ truncated' = [truncated EXCEPT ![r] = TRUE]
            /\ Respond(r, 200)
            /\ UNCHANGED idx
       ELSE IF idx[r] < Len(usersToCheck[r])
         THEN /\ idx' = [idx EXCEPT ![r] = idx[r] + 1]
              /\ pc' = [pc EXCEPT ![r] = "getUser"]
              /\ UNCHANGED <<truncated, response>>
         ELSE /\ Respond(r, 200)
              /\ UNCHANGED <<truncated, idx>>
  /\ UNCHANGED gameVars
  /\ UNCHANGED <<now, store, deleted, startTime, usersToCheck, outcome, pre, abortedBy,
                 delivery, failedBefore, lastTouch, regAt, lastCall, isUserId, called>>

\* userDeleteDetectorHelper.ts:256: the async handler returns; its locals are gone.
Return(r) ==
  /\ pc[r] = "done"
  /\ pc' = [pc EXCEPT ![r] = "idle"]
  /\ startTime' = [startTime EXCEPT ![r] = 0]
  /\ usersToCheck' = [usersToCheck EXCEPT ![r] = <<>>]
  /\ idx' = [idx EXCEPT ![r] = 0]
  /\ response' = [response EXCEPT ![r] = 0]
  /\ outcome' = [outcome EXCEPT ![r] = NoOutcome]
  /\ pre' = [pre EXCEPT ![r] = EmptyStore]
  /\ truncated' = [truncated EXCEPT ![r] = FALSE]
  /\ abortedBy' = [abortedBy EXCEPT ![r] = "none"]
  /\ isUserId' = [isUserId EXCEPT ![r] = FALSE]
  /\ called' = [called EXCEPT ![r] = NothingCalled]
  /\ failedBefore' = failedBefore \cap DOMAIN store
  /\ UNCHANGED gameVars
  /\ UNCHANGED <<now, store, deleted, delivery, lastTouch, regAt, lastCall>>

RunStep(r) ==
  \/ Fetch(r)
  \/ GetUser(r)
  \/ CallOnUserDeleted(r)
  \/ Remove(r)
  \/ Touch(r)
  \/ CheckBudget(r)
  \/ Return(r)

\* No invocation is in progress.
Quiet == \A r \in Runs : pc[r] = "idle"

\* ------------------------------------------------------------ specification
\* One invocation at a time (the cron trigger of the file header), the registration
\* API called between invocations.
Next ==
  \/ Tick
  \/ \E k \in Keys : DeleteAccount(k)
  \/ \E k \in Keys : Quiet /\ registerUserForDeleteCheck(k)
  \/ \E k \in Keys : Quiet /\ unregisterUserForDeleteCheck(k)
  \/ \E r \in Runs : Quiet /\ Invoke(r)
  \/ \E r \in Runs : RunStep(r)

Spec == Init /\ [][Next]_vars

\* The cron trigger keeps invoking the endpoint (file header: "0/5 * * * *"), every
\* awaited call of a run returns or throws, and the store does not fail for ever: a
\* redis call that is issued again and again eventually succeeds.
Fairness ==
  \A r \in Runs :
    /\ WF_vars(Quiet /\ Invoke(r))
    /\ WF_vars(RunStep(r))
    /\ SF_vars(Fetch(r) /\ abortedBy'[r] = "none")
    /\ SF_vars(Touch(r) /\ abortedBy'[r] = "none")
    /\ SF_vars(Remove(r) /\ store' # store)

LiveSpec == Init /\ [][Next]_vars /\ Fairness

\* ------------------------------------------------------------ overlapping requests
\* The handler is async: a second request of the endpoint can arrive while the first
\* is at an await, and other requests of the app call the registration API meanwhile.
Overlapping == {1, 2}

\* The clock of SpecOverlapping moves in whole days, MaxOverlapDays at most.
MaxOverlapDays == 1

InitOverlapping ==
  /\ now = 0
  /\ store = EmptyStore
  /\ deleted = {}
  /\ pc = [r \in Overlapping |-> "idle"]
  /\ startTime = [r \in Overlapping |-> 0]
  /\ usersToCheck = [r \in Overlapping |-> <<>>]
  /\ idx = [r \in Overlapping |-> 0]
  /\ response = [r \in Overlapping |-> 0]
  /\ outcome = [r \in Overlapping |-> NoOutcome]
  /\ pre = [r \in Overlapping |-> EmptyStore]
  /\ truncated = [r \in Overlapping |-> FALSE]
  /\ abortedBy = [r \in Overlapping |-> "none"]
  /\ isUserId = [r \in Overlapping |-> FALSE]
  /\ called = [r \in Overlapping |-> NothingCalled]
  /\ delivery = [k \in Keys |-> "none"]
  /\ failedBefore = {}
  /\ lastTouch = [k \in Keys |-> NoTouch]
  /\ regAt = [k \in Keys |-> NoTouch]
  /\ lastCall = NoCall
  /\ state = InitialState
  /\ lastClick = NoClick

\* No request has arrived yet.
NoRequestYet == \A r \in Overlapping : pc[r] = "idle"

\* Members are registered, then two requests are handled, once each, the second
\* arriving after the first; accounts are deleted and members are unregistered at any
\* time, also between two awaits of a handler.
NextOverlapping ==
  \/ Tick /\ now' % oneDayMs = 0 /\ now' <= MaxOverlapDays * oneDayMs
  \/ \E k \in Keys : DeleteAccount(k)
  \/ \E k \in Keys : NoRequestYet /\ registerUserForDeleteCheck(k)
  \/ \E k \in Keys : unregisterUserForDeleteCheck(k)
  \/ \E r \in Overlapping : (r = 1 \/ pc[1] # "idle") /\ Invoke(r)
  \/ \E r \in Overlapping : Fetch(r)
  \/ \E r \in Overlapping : GetUser(r)
  \/ \E r \in Overlapping : CallOnUserDeleted(r)
  \/ \E r \in Overlapping : Remove(r)
  \/ \E r \in Overlapping : Touch(r)
  \/ \E r \in Overlapping : CheckBudget(r)

SpecOverlapping == InitOverlapping /\ [][NextOverlapping]_vars

\* Members are registered, and registered again, at any time, also between two awaits
\* of a handler, while two requests that find the accounts in place overlap.
NextRegistering ==
  \/ Tick /\ now' % oneDayMs \in {0, budgetMs + 1} /\ now' <= MaxOverlapDays * oneDayMs + budgetMs + 1
  \/ \E k \in Keys : registerUserForDeleteCheck(k)
  \/ \E r \in Overlapping : (r = 1 \/ pc[1] # "idle") /\ Invoke(r)
  \/ \E r \in Overlapping : Fetch(r)
  \/ \E r \in Overlapping : GetUser(r)
  \/ \E r \in Overlapping : Touch(r)
  \/ \E r \in Overlapping : CheckBudget(r)

SpecRegistering == InitOverlapping /\ [][NextRegistering]_vars

\* ------------------------------------------------------------ client game
detectorVars == <<now, store, deleted, runVars, delivery, failedBefore, lastTouch,
                  regAt, lastCall>>

LevelName == <<"d", "a", "y", "1">>
Username == <<"a", "n", "o", "n", "y", "m", "o", "u", "s">>

\* part_000:40-78: the effect of the first render; /api/init answers with the level,
\* or the fetch fails, the answer is not ok or is not of type 'init'.
init ==
  /\ state.loading
  /\ \/ \E data \in Levels :
          state' = [state EXCEPT !.levelName = LevelName, !.levelData = data,
                                 !.username = Username, !.loading = FALSE,
                                 !.error = FALSE, !.attempts = 0, !.foundTreasure = 0]
     \/ state' = [state EXCEPT !.loading = FALSE, !.error = TRUE]
  /\ UNCHANGED <<lastClick, detectorVars>>

\* part_000:149: a click on a box of the rendered grid; React renders the new state
\* before the next click is handled.
onClick(boxNo) ==
  /\ Rendered(state)
  /\ state.attempts < MaxAttempts \/ AlreadySelected(state, boxNo) \/ didWin(state)
  /\ state' = IF ~didWin(state) THEN onBoxSelect(state, boxNo) ELSE state
  /\ lastClick' = [boxNo |-> boxNo, prev |-> state]
  /\ UNCHANGED detectorVars

\* The boxes that are clicked: every box an item of Levels names, and two that no
\* level names.
Clicked == {0, 1, 2, 3, 5, 7, 8, 9, 12, 24}

NextGame ==
  \/ init
  \/ \E boxNo \in Clicked : onClick(boxNo)

SpecGame == Init /\ [][NextGame]_vars

\* ------------------------------------------------------------ properties
Done(r) == pc[r] = "done"

\* k was in the batch of run r, stale when the batch was fetched.
StaleCandidate(r, k) ==
  /\ k \in Members(usersToCheck[r])
  /\ k \in DOMAIN pre[r]
  /\ pre[r][k] <= Cutoff(startTime[r])

\* onUserDeleted(k) completed without error in run r.
CallbackSucceeded(r, k) == outcome[r][k] \in {"cleaned", "removed", "removeError"}

\* C1 as stated: at the end of a run, a stale candidate found absent upstream whose
\* onUserDeleted completed without error is no longer in the store.
C1_AsStated ==
  \A r \in Runs, k \in Keys :
    (Done(r) /\ StaleCandidate(r, k) /\ CallbackSucceeded(r, k)) => k \notin DOMAIN store

\* C1 (amended): at the end of a run, a stale candidate found absent upstream whose
\* onUserDeleted completed without error and whose redis.zRem did not throw is no
\* longer in the store.
C1_DeletionFlow ==
  \A r \in Runs, k \in Keys :
    (Done(r) /\ StaleCandidate(r, k) /\ CallbackSucceeded(r, k)
       /\ outcome[r][k] # "removeError") => k \notin DOMAIN store

C1_Witness ==
  \E r \in Runs, k \in Keys :
    Done(r) /\ StaleCandidate(r, k) /\ outcome[r][k] = "removed" /\ k \in deleted

\* The entry of k is what it was when the batch of run r was fetched.
Untouched(r, k) ==
  /\ k \in DOMAIN pre[r]
  /\ k \in DOMAIN store
  /\ store[k] = pre[r][k]

\* C2 as stated: at the end of a run, a stale candidate whose callback threw keeps its
\* pre-run entry, and a candidate whose callback threw in an earlier run and succeeds
\* in this one is no longer in the store.
C2_AsStated ==
  \A r \in Runs, k \in Keys :
    /\ (Done(r) /\ StaleCandidate(r, k) /\ outcome[r][k] = "callbackError")
         => Untouched(r, k)
    /\ (Done(r) /\ k \in failedBefore /\ CallbackSucceeded(r, k)) => k \notin DOMAIN store

\* C2 (amended): at the end of a run, a stale candidate whose callback threw keeps its
\* pre-run entry, and a candidate whose callback threw in an earlier run and succeeds
\* in this one is no longer in the store provided redis.zRem did not throw; when it
\* threw, the entry is again the pre-run entry.
C2_RetryFlow ==
  \A r \in Runs, k \in Keys :
    /\ (Done(r) /\ StaleCandidate(r, k) /\ outcome[r][k] = "callbackError")
         => Untouched(r, k)
    /\ (Done(r) /\ k \in failedBefore /\ outcome[r][k] = "removed") => k \notin DOMAIN store
    /\ (Done(r) /\ k \in failedBefore /\ outcome[r][k] = "removeError") => Untouched(r, k)

C2_Witness ==
  \E r \in Runs, k \in Keys :
    Done(r) /\ k \in failedBefore /\ outcome[r][k] = "removed" /\ k \notin DOMAIN store

\* C3 as stated: onUserDeleted is never in flight for a member for which it has
\* completed successfully since the member was last registered.
C3_AsStated ==
  \A r \in Runs :
    pc[r] = "onUserDeleted" => delivery[User(r).member] = "none"

\* C3 (amended): onUserDeleted is never in flight for a member for which it has
\* completed successfully and which redis.zRem then removed, since the member was
\* last registered.
C3_OncePerRemoval ==
  \A r \in Runs :
    pc[r] = "onUserDeleted" => delivery[User(r).member] # "retired"

\* A later run has ended after k was retired.
C3_Witness ==
  \E r \in Runs, k \in Keys :
    /\ delivery[k] = "retired"
    /\ Done(r) /\ response[r] = 200
    /\ k \notin Members(usersToCheck[r])
    /\ Len(usersToCheck[r]) > 0

\* The members run r has dealt with (their lookup was made).
Processed(r) == {k \in Keys : outcome[r][k] # "unseen"}

\* The members that were stale when run r fetched its batch.
StaleAtFetch(r) == {k \in DOMAIN pre[r] : pre[r][k] <= Cutoff(startTime[r])}

\* C5: when a run ends at the elapsed-time break after M of its N stale candidates,
\* M < N, it has dealt with exactly the first M of the batch, these are the M with the
\* lowest scores, and each of the other N-M has its pre-run entry and is stale for
\* every run that starts from now on.
C5_Truncation ==
  \A r \in Runs :
    (Done(r) /\ truncated[r] /\ idx[r] < Len(usersToCheck[r])) =>
      /\ Members(usersToCheck[r]) = StaleAtFetch(r)
      /\ Processed(r) = {usersToCheck[r][j].member : j \in 1..idx[r]}
      /\ Cardinality(Processed(r)) = idx[r]
      /\ \A p \in Processed(r), q \in StaleAtFetch(r) \ Processed(r) :
           pre[r][p] <= pre[r][q]
      /\ \A q \in StaleAtFetch(r) \ Processed(r) :
           Untouched(r, q) /\ store[q] <= Cutoff(now)

C5_Witness ==
  \E r \in Runs :
    /\ Done(r) /\ truncated[r] /\ response[r] = 200
    /\ idx[r] = 1 /\ Len(usersToCheck[r]) = 2
    /\ usersToCheck[r][1].score < usersToCheck[r][2].score

\* Run r has just received its batch.
Fetched(r) == pc[r] = "zRange" /\ pc'[r] # "zRange"

\* C6 as stated: at the end of a run, a candidate found still existing has the run's
\* start time as its score, and no batch fetched afterwards by a run that starts less
\* than 24h after the re-stamp contains it.
C6_AsStated ==
  /\ [](\A r \in Runs, k \in Keys :
          (Done(r) /\ outcome[r][k] = "touched") =>
             (k \in DOMAIN store /\ store[k] = startTime[r]))
  /\ [][\A r \in Runs : Fetched(r) =>
          \A k \in Members(usersToCheck'[r]) :
             lastTouch[k] = NoTouch \/ startTime[r] >= lastTouch[k] + oneDayMs]_vars

\* C6 (amended): at the end of a run, a candidate found still existing has as its
\* score the clock reading taken when the re-stamp was issued, which is between the
\* run's start and now, and no batch fetched afterwards by a run that starts less
\* than 24h after the re-stamp contains it.
C6_ReCheck ==
  /\ [](\A r \in Runs, k \in Keys :
          (Done(r) /\ outcome[r][k] = "touched") =>
             /\ k \in DOMAIN store
             /\ store[k] = lastTouch[k]
             /\ startTime[r] <= store[k] /\ store[k] <= now)
  /\ [][\A r \in Runs : Fetched(r) =>
          \A k \in Members(usersToCheck'[r]) :
             lastTouch[k] = NoTouch \/ startTime[r] >= lastTouch[k] + oneDayMs]_vars

\* A later run has fetched a non-empty batch without the re-stamped member.
C6_Witness ==
  \E r \in Runs, k \in Keys :
    /\ k \in DOMAIN store /\ lastTouch[k] # NoTouch
    /\ startTime[r] > lastTouch[k]
    /\ pc[r] = "getUser"
    /\ k \notin Members(usersToCheck[r])

\* C7 as stated: a throw of the lookup for a candidate leaves its entry as it was and
\* the run is not answered with HTTP 500.
C7_AsStated ==
  \A r \in Runs, k \in Keys :
    outcome[r][k] = "lookupError" => (Untouched(r, k) /\ response[r] # 500)

\* A store call of run r has thrown.
StoreFailed(r) ==
  \/ abortedBy[r] \in {"zRange", "zAdd"}
  \/ \E k \in Keys : outcome[r][k] = "removeError"

\* No candidate after the present one has been dealt with.
RestUnseen(r) ==
  \A j \in (idx[r] + 1)..Len(usersToCheck[r]) : outcome[r][usersToCheck[r][j].member] = "unseen"

\* C8 as stated: a run in which a store call has thrown ends with HTTP 500, and no
\* candidate after the present one was dealt with.
C8_AsStated ==
  \A r \in Runs :
    (Done(r) /\ StoreFailed(r)) => (response[r] = 500 /\ RestUnseen(r))

\* C8 (amended): once redis.zRange or the re-stamping redis.zAdd of a run has thrown,
\* the run has ended with HTTP 500 and no further candidate was dealt with; a throw of
\* the redis.zRem that follows a successful callback leaves the entry as it was and
\* does not fail the run: a run that ends with no other throw answers HTTP 200.
C8_StoreErrors ==
  \A r \in Runs :
    /\ abortedBy[r] \in {"zRange", "zAdd"} =>
         (Done(r) /\ response[r] = 500 /\ RestUnseen(r))
    /\ \A k \in Keys :
         outcome[r][k] = "removeError" =>
           /\ Untouched(r, k)
           /\ pc[r] \in {"budget", "getUser", "onUserDeleted", "zRem", "zAdd", "done"}
           /\ (Done(r) /\ abortedBy[r] = "none") => response[r] = 200
           /\ response[r] = 500 => abortedBy[r] \in {"getUser", "zAdd"}

C8_Witness ==
  \E r \in Runs :
    /\ Done(r) /\ abortedBy[r] = "zAdd" /\ response[r] = 500
    /\ idx[r] < Len(usersToCheck[r])

\* The callback of run r has thrown for some candidate.
CallbackFailed(r) == \E k \in Keys : outcome[r][k] = "callbackError"

\* C9 as stated: a run in which onUserDeleted threw for a candidate ends with HTTP 200,
\* and unless it ended at the elapsed-time break every candidate was dealt with (here
\* for the runs in which no lookup threw, C7).
C9_AsStated ==
  \A r \in Runs :
    (Done(r) /\ CallbackFailed(r) /\ abortedBy[r] # "getUser") =>
      /\ response[r] = 200
      /\ truncated[r] \/ Members(usersToCheck[r]) \subseteq Processed(r)

\* C9 (amended): a throw of onUserDeleted never ends the run: a run in which it threw
\* ends with HTTP 200, having dealt with every candidate unless it ended at the
\* elapsed-time break, or it ends with HTTP 500 because the lookup or the re-stamp of a
\* later candidate threw.
C9_CallbackIsolation ==
  \A r \in Runs :
    (Done(r) /\ CallbackFailed(r)) =>
      \/ /\ abortedBy[r] = "none"
         /\ response[r] = 200
         /\ truncated[r] \/ Members(usersToCheck[r]) \subseteq Processed(r)
      \/ /\ abortedBy[r] \in {"getUser", "zAdd"}
         /\ response[r] = 500
         /\ outcome[r][User(r).member] \in {"lookupError", "touchError"}

\* A later candidate was dealt with after the callback threw, and the run ended well.
C9_Witness ==
  \E r \in Runs :
    /\ Done(r) /\ response[r] = 200 /\ ~truncated[r]
    /\ idx[r] = 2
    /\ outcome[r][usersToCheck[r][1].member] = "callbackError"
    /\ outcome[r][usersToCheck[r][2].member] # "unseen"

\* k is registered and due for a check.
StaleRegistered(k) == k \in DOMAIN store /\ store[k] <= Cutoff(now)

\* A run has made the lookup for k.
LookedUp(k) == \E r \in Runs : outcome[r][k] # "unseen"

\* onUserDeleted(k) has been called and has not returned yet.
CallbackInFlight(k) ==
  \E r \in Runs : pc[r] = "onUserDeleted" /\ User(r).member = k

\* The lookup for k has thrown in a run.
LookupThrew(k) == \E r \in Runs : outcome[r][k] = "lookupError"

\* C4 as stated (its first half): a registered member that is due for a check and
\* whose account is gone upstream is eventually handed to onUserDeleted, unless it is
\* unregistered or registered anew, or its own lookup throws.
C4_AsStated ==
  \A k \in Keys :
    (StaleRegistered(k) /\ k \in deleted) ~>
       (CallbackInFlight(k) \/ ~StaleRegistered(k) \/ LookupThrew(k))

\* C10 as stated: a member that is registered and due for a check is eventually looked
\* up by a run, unless it stops being registered and due.
C10_AsStated ==
  \A k \in Keys :
    StaleRegistered(k) ~> (LookedUp(k) \/ ~StaleRegistered(k))

\* Run r holds the batch that redis.zRange returned.
HasBatch(r) == pc[r] \notin {"idle", "zRange"} /\ abortedBy[r] # "zRange"

\* C11: the batch of a run started at t holds every member whose score was at most
\* t - 86400000 when it was fetched, each once and with that score, holds no member
\* with a larger score, is in ascending score order, and the loop goes through it
\* from the front: the members dealt with so far are those of positions 1..idx.
C11_StaleSelection ==
  \A r \in Runs :
    HasBatch(r) =>
      LET batch == usersToCheck[r]
          due == {k \in DOMAIN pre[r] : pre[r][k] <= startTime[r] - 86400000}
      IN /\ Members(batch) = due
         /\ Len(batch) = Cardinality(due)
         /\ \A j \in 1..Len(batch) : batch[j].score = pre[r][batch[j].member]
         /\ \A i, j \in 1..Len(batch) : i < j => batch[i].score <= batch[j].score
         /\ \A j \in 1..Len(batch) :
              /\ j < idx[r] => outcome[r][batch[j].member] # "unseen"
              /\ j > idx[r] => outcome[r][batch[j].member] = "unseen"

\* A batch of one member whose score is exactly the cutoff, fetched while the other
\* member was registered with a larger score.
C11_Witness ==
  \E r \in Runs, k \in Keys :
    /\ Done(r) /\ response[r] = 200
    /\ Members(usersToCheck[r]) = {k}
    /\ pre[r][k] = startTime[r] - 86400000
    /\ DOMAIN pre[r] = Keys
    /\ outcome[r][k] # "unseen"

\* Run r started less than 24 hours after the latest register call for k (a run that
\* re-stamps k has started later than that, and so does every run after it).
StartedWithinWindow(r, k) ==
  /\ pc[r] # "idle"
  /\ regAt[k] # NoTouch
  /\ startTime[r] < regAt[k] + 86400000

\* C12: a run that starts less than 24 hours after registerUserForDeleteCheck(k) does
\* not have k in its batch, makes no lookup for k and does not call onUserDeleted for k.
C12_FreshNotStale ==
  \A r \in Runs, k \in Keys :
    StartedWithinWindow(r, k) =>
      /\ k \notin Members(usersToCheck[r])
      /\ outcome[r][k] = "unseen"
      /\ pc[r] \in {"getUser", "onUserDeleted", "zRem", "zAdd"} => User(r).member # k

\* A run that started after k was registered, and less than 24 hours after it, has
\* ended having dealt with the other member only.
C12_Witness ==
  \E r \in Runs, k \in Keys :
    /\ Done(r) /\ StartedWithinWindow(r, k)
    /\ startTime[r] > regAt[k]
    /\ k \in DOMAIN store /\ store[k] = regAt[k]
    /\ Len(usersToCheck[r]) = 1
    /\ Processed(r) = Keys \ {k}

\* The number of entries of the listing `all` of a sorted set whose member is k.
Entries(all, k) == Cardinality({j \in 1..Len(all) : all[j].member = k})

\* C13: at any time no member has more than one entry in the sorted set, and after
\* registerUserForDeleteCheck(k) for a k that was already registered there is exactly
\* one entry for k, whose score is the time of that latest call.
C13_Idempotence ==
  LET all == ZRangeByScore(store, 0, now)
  IN /\ \A k \in Keys : Entries(all, k) <= 1
     /\ Len(all) = Cardinality(DOMAIN store)
     /\ (lastCall.op = "register" /\ lastCall.present) =>
          LET k == lastCall.member
          IN /\ Entries(all, k) = 1
             /\ k \in DOMAIN store
             /\ store[k] = regAt[k]
             /\ store[k] = now

\* k, registered before, was registered again at a later time while the other member
\* was registered too.
C13_Witness ==
  /\ lastCall.op = "register" /\ lastCall.present
  /\ DOMAIN store = Keys
  /\ store[lastCall.member] = now /\ now > 0
  /\ \E k \in Keys : store[k] < now

\* k is in the answer of some stale selection on the sorted set s.
Selectable(s, k) == \E c \in Instants : k \in Members(ZRangeByScore(s, 0, c))

\* C14: after unregisterUserForDeleteCheck(k), made between invocations, k is not in
\* the store and no selection returns it, whatever the cutoff; and as long as k is not
\* registered again no run has k in its batch, but for the run that removed it.
C14_RoundTrip ==
  /\ lastCall.op = "unregister" =>
       (lastCall.member \notin DOMAIN store /\ ~Selectable(store, lastCall.member))
  /\ \A k \in Keys :
       (regAt[k] = NoTouch /\ lastTouch[k] = NoTouch) =>
         /\ k \notin DOMAIN store /\ ~Selectable(store, k)
         /\ \A r \in Runs :
              k \in Members(usersToCheck[r]) => outcome[r][k] = "removed"

\* k was registered, then unregistered, while the other member stays registered and
\* is due for a check.
C14_Witness ==
  /\ lastCall.op = "unregister" /\ lastCall.present
  /\ lastCall.member \notin DOMAIN store
  /\ \E k \in Keys \ {lastCall.member} : StaleRegistered(k) /\ Selectable(store, k)

\* C15: unregisterUserForDeleteCheck(k) for a k that is not in the store completes and
\* leaves the store, members and scores, as it was; nothing else of the detector is
\* changed by it either.
C15_UnregisterAbsent ==
  [][\A k \in Keys :
       (k \notin DOMAIN store /\ unregisterUserForDeleteCheck(k)) =>
          /\ store' = store
          /\ lastCall' = [op |-> "unregister", member |-> k, present |-> FALSE]
          /\ UNCHANGED <<now, deleted, runVars, delivery, lastTouch>>]_vars

\* An absent member was unregistered while the other member was registered.
C15_Witness ==
  /\ lastCall.op = "unregister" /\ ~lastCall.present
  /\ DOMAIN store = Keys \ {lastCall.member}
  /\ \E k \in DOMAIN store : store[k] = regAt[k] /\ store[k] > 0

\* C16 as stated: the re-stamp of a run never changes which members are in the store,
\* whatever unregisterUserForDeleteCheck calls were made since the run fetched its
\* batch.
C16_AsStated ==
  [][\A r \in Overlapping : Touch(r) => DOMAIN store' = DOMAIN store]_vars

\* C17: a request is answered exactly once, when its handler ends: with HTTP 200 when
\* no throw reached the outer catch, the stop at the elapsed-time check included, and
\* with HTTP 500 when one did; until then nothing is sent, and at every await the
\* handler has a next step whatever the awaited call does.
C17_TriggerResponse ==
  /\ [](\A r \in Runs :
          /\ Done(r) => /\ response[r] \in {200, 500}
                        /\ response[r] = 200 <=> abortedBy[r] = "none"
          /\ ~Done(r) => (response[r] = 0 /\ abortedBy[r] = "none" /\ ~truncated[r])
          /\ truncated[r] => response[r] = 200
          /\ pc[r] # "idle" => ENABLED RunStep(r))
  /\ [][\A r \in Runs :
          response'[r] # response[r] =>
             \/ response[r] = 0 /\ pc[r] \notin {"idle", "done"} /\ pc'[r] = "done"
             \/ pc[r] = "done" /\ pc'[r] = "idle" /\ response'[r] = 0]_vars

\* A run in which the callback threw was stopped at the elapsed-time check and
\* answered with HTTP 200.
C17_Witness ==
  \E r \in Runs :
    /\ Done(r) /\ truncated[r] /\ response[r] = 200
    /\ CallbackFailed(r)
    /\ idx[r] < Len(usersToCheck[r])

\* The candidates of run r that the lookup found absent upstream.
FoundAbsent(r) ==
  {k \in Keys : outcome[r][k] \in {"absent", "cleaned", "removed", "removeError", "callbackError"}}

\* C18 as stated: the answer of a run that ends well carries a summary: processed, the
\* number of candidates dealt with, deletedFound, the number found absent upstream, and
\* truncated, true exactly when the run stopped at the elapsed-time check.
C18_AsStated ==
  \A r \in Runs :
    (Done(r) /\ response[r] = 200) =>
      LET body == ResponseBody(response[r])
      IN /\ {"processed", "deletedFound", "truncated"} \subseteq DOMAIN body
         /\ body.processed = Cardinality(Processed(r))
         /\ body.deletedFound = Cardinality(FoundAbsent(r))
         /\ body.truncated = truncated[r]

\* Request r is at the redis.zRem of k, after its own lookup found k absent and its own
\* onUserDeleted(k) completed without error.
RemovingAfterCleanup(r, k) ==
  /\ pc[r] = "zRem"
  /\ User(r).member = k
  /\ outcome[r][k] = "cleaned"
  /\ k \in deleted

\* C19: with overlapping requests and unregister calls at any time, a member leaves
\* the store only by unregisterUserForDeleteCheck or by the redis.zRem of a request
\* whose own lookup found it absent and whose own onUserDeleted call for it completed
\* without error; onUserDeleted is called only after that lookup, and a member whose
\* account exists is never removed by a request.
C19_RemovalAfterCleanup ==
  /\ [](\A r \in Overlapping :
          /\ pc[r] = "onUserDeleted" =>
               (outcome[r][User(r).member] = "absent" /\ User(r).member \in deleted)
          /\ pc[r] = "zRem" => RemovingAfterCleanup(r, User(r).member)
          /\ \A k \in Keys : outcome[r][k] = "removed" => k \in deleted)
  /\ [][\A k \in Keys :
          (k \in DOMAIN store /\ k \notin DOMAIN store') =>
             \/ /\ lastCall' = [op |-> "unregister", member |-> k, present |-> TRUE]
                /\ UNCHANGED runVars
             \/ \E r \in Overlapping :
                   /\ RemovingAfterCleanup(r, k)
                   /\ outcome'[r][k] = "removed"
                   /\ lastCall' = lastCall]_vars

\* Two requests had k in their batches and both called onUserDeleted(k): the first has
\* removed k, the second is at its redis.zRem.
C19_Witness ==
  \E k \in Keys :
    /\ outcome[1][k] = "removed"
    /\ k \notin DOMAIN store
    /\ RemovingAfterCleanup(2, k)

\* The branch of the loop body for the present candidate of run r has completed.
BranchCompleted(r) ==
  outcome[r][User(r).member] \in {"touched", "removed", "removeError", "callbackError"}

\* C20: the elapsed-time check of a run is made only when the branch of the present
\* candidate has completed; it ends the loop exactly when more than 15000 ms have
\* passed since the run started, and otherwise the loop goes on with the next
\* candidate; the lookup of the first candidate is made before any check, and no
\* lookup is started after a check has found the time exceeded.
C20_BudgetCheck ==
  /\ [](\A r \in Runs :
          /\ pc[r] = "budget" => BranchCompleted(r)
          /\ (HasBatch(r) /\ Len(usersToCheck[r]) > 0) =>
               \/ pc[r] = "getUser" /\ idx[r] = 1
               \/ outcome[r][usersToCheck[r][1].member] # "unseen"
          /\ truncated[r] => (Done(r) /\ now - startTime[r] > 15000))
  /\ [][\A r \in Runs :
          /\ (pc[r] = "budget" /\ pc'[r] # "budget") =>
               IF now - startTime[r] > 15000
                 THEN pc'[r] = "done" /\ truncated'[r] /\ response'[r] = 200 /\ idx'[r] = idx[r]
                 ELSE /\ ~truncated'[r]
                      /\ idx[r] < Len(usersToCheck[r]) =>
                           (pc'[r] = "getUser" /\ idx'[r] = idx[r] + 1)
                      /\ idx[r] = Len(usersToCheck[r]) =>
                           (pc'[r] = "done" /\ response'[r] = 200)
          /\ (pc'[r] = "getUser" /\ pc[r] # "getUser") =>
               \/ pc[r] = "zRange" /\ idx'[r] = 1
               \/ pc[r] = "budget" /\ now - startTime[r] <= 15000
          /\ (truncated'[r] /\ ~truncated[r]) => pc[r] = "budget"]_vars

\* The first candidate was re-stamped 15000 ms after the run started, the check that
\* followed let the loop go on, and the run is at the lookup of the second candidate.
C20_Witness ==
  \E r \in Runs :
    /\ pc[r] = "getUser" /\ idx[r] = 2
    /\ lastTouch[usersToCheck[r][1].member] = startTime[r] + 15000
    /\ now = startTime[r] + 15000

SameEntry(s, t, k) ==
  /\ k \in DOMAIN s <=> k \in DOMAIN t
  /\ k \in DOMAIN s => s[k] = t[k]

\* C22: a step of a run changes no entry but that of the candidate it is dealing with,
\* a member of its batch; every member that was not in the batch, those with a score
\* above the cutoff at the fetch included, has throughout the run the entry, or the
\* absence, it had when the batch was fetched.
C22_RunFrame ==
  /\ [](\A r \in Runs, k \in Keys :
          (HasBatch(r) /\ k \notin Members(usersToCheck[r])) =>
             /\ SameEntry(pre[r], store, k)
             /\ k \in DOMAIN pre[r] => pre[r][k] > startTime[r] - 86400000)
  /\ [][\A r \in Runs :
          RunStep(r) =>
            \A k \in Keys :
              ~SameEntry(store, store', k) =>
                 /\ pc[r] \in {"zRem", "zAdd"}
                 /\ k = User(r).member
                 /\ k \in DOMAIN pre[r] /\ pre[r][k] <= startTime[r] - 86400000]_vars

\* A run has removed or re-stamped the one member of its batch while the other member,
\* registered with a score above the cutoff, has kept its entry.
C22_Witness ==
  \E r \in Runs, k \in Keys :
    /\ Done(r)
    /\ Members(usersToCheck[r]) = {k}
    /\ ~SameEntry(pre[r], store, k)
    /\ \E q \in Keys \ {k} : q \in DOMAIN pre[r] /\ q \in DOMAIN store /\ store[q] = pre[r][q]

\* Member texts that are not registered: the prefix alone, the prefix further on, a
\* part of the prefix, another case, the empty text.
Samples ==
  { <<"t", "2", "_">>, <<"a", "t", "2", "_">>, <<"t", "2">>, <<"T", "2", "_", "a">>,
    <<"t", "2", "a", "_">>, <<"_", "t", "2", "_", "t", "2", "_">>, <<>> }

\* C23: the lookup made for a candidate is by id exactly when the text of the member
\* begins with t2_, and by name otherwise; onUserDeleted is passed the member and that
\* same boolean, the one the handler computed before the lookup; the test of the
\* handler agrees with "begins with t2_" on other texts as well.
C23_Classification ==
  /\ \A r \in Runs :
       /\ (called[r].api \in {"getUserById", "getUserByUsername"} /\ pc[r] # "getUser") =>
            /\ called[r].args = <<User(r).member>>
            /\ called[r].api = "getUserById" <=> StartsWith(User(r).member, <<"t", "2", "_">>)
            /\ called[r].api = LookupApi(isUserId[r])
       /\ (called[r].api = "onUserDeleted" /\ pc[r] # "getUser") =>
            /\ called[r].args = <<User(r).member, StartsWith(User(r).member, <<"t", "2", "_">>)>>
            /\ called[r].args[2] = isUserId[r]
       /\ pc[r] \in {"onUserDeleted", "zAdd"} =>
            called[r].api \in {"getUserById", "getUserByUsername"}
  /\ \A t \in Samples \cup Keys : IsUserId(t) <=> StartsWith(t, <<"t", "2", "_">>)

\* In one run the member t2_a was looked up by id and handed to onUserDeleted as a
\* user id, after the member bob had been looked up by name.
C23_Witness ==
  \E r \in Runs :
    /\ called[r] = [api |-> "onUserDeleted", args |-> <<UserA, TRUE>>]
    /\ idx[r] = 2
    /\ outcome[r][UserB] \in {"touched", "removed", "callbackError"}

\* No member was due for a check when run r fetched its batch.
NothingStale(r) ==
  /\ HasBatch(r)
  /\ \A k \in DOMAIN pre[r] : pre[r][k] > startTime[r] - 86400000

\* C24: a run whose fetch finds no member due for a check has ended right after the
\* fetch with HTTP 200, has called neither reddit nor onUserDeleted, and has left the
\* store as it was.
C24_EmptyBatch ==
  \A r \in Runs :
    NothingStale(r) =>
      /\ Done(r) /\ response[r] = 200 /\ ~truncated[r]
      /\ usersToCheck[r] = <<>>
      /\ called[r] = NothingCalled
      /\ outcome[r] = NoOutcome
      /\ store = pre[r]

\* Both members are registered, neither is due, and the run has ended.
C24_Witness ==
  \E r \in Runs :
    /\ NothingStale(r) /\ Done(r)
    /\ DOMAIN pre[r] = Keys
    /\ startTime[r] >= 86400000

\* C25 as stated: when a request calls onUserDeleted for a member, the member is in the
\* store at that moment, whatever unregisterUserForDeleteCheck calls and whatever
\* steps of an overlapping request came before.
C25_AsStated ==
  [][\A r \in Overlapping :
       (pc[r] # "onUserDeleted" /\ pc'[r] = "onUserDeleted") =>
          User(r).member \in DOMAIN store']_vars

\* ------------------------------------------------------------ client game: claims
Selected(s) == {b \in Boxes : s.selectedItems[b]}

\* The boxes of the grid whose number is an item of the comma-separated levelData.
Listed(levelData) ==
  {b \in Boxes : \E i \in DOMAIN Split(levelData, ",") : Split(levelData, ",")[i] = toString(b)}

\* C26: after any clicks, attempts is the number of selected boxes and foundTreasure
\* the number of selected boxes listed in levelData; a click on a box that is selected
\* already, and any click once the game is won, leaves the game state as it was.
C26_GameCounters ==
  /\ state.attempts = Cardinality(Selected(state))
  /\ state.foundTreasure = Cardinality(Selected(state) \cap Listed(state.levelData))
  /\ (/\ lastClick # NoClick
      /\ \/ lastClick.prev.selectedItems[lastClick.boxNo]
         \/ didWin(lastClick.prev)) => state = lastClick.prev

\* A game won with a miss on the way, and then a click on a box not yet selected.
C26_Witness ==
  /\ lastClick # NoClick
  /\ didWin(lastClick.prev)
  /\ ~lastClick.prev.selectedItems[lastClick.boxNo]
  /\ state.foundTreasure >= 1
  /\ state.attempts > state.foundTreasure

\* C27 as stated: whatever levelData is, the game is won exactly when every box
\* listed in levelData is selected.
C27_AsStated ==
  Rendered(state) => (didWin(state) <=> Listed(state.levelData) \subseteq Selected(state))

====
